---- MODULE Spec2Model ----
(***************************************************************************)
(* Model of the Bati chat page (dvnrvn/bati-web).                          *)
(*                                                                         *)
(* src/unnamed/part_000 holds two alternative App components: lines 1-174  *)
(* reply through mockAgentReply (a 400 ms timer), lines 175-338 reply      *)
(* through sendToBackend (a fetch to /chat/turn).  src/src/main.tsx mounts *)
(* one App next to ThemeSync, the cross-tab theme listener.                *)
(*                                                                         *)
(* JavaScript strings are TLA+ strings, handled character by character     *)
(* with Len, SubSeq and \o.  The few non-ASCII characters of the source    *)
(* literals are written with ASCII stand-ins: the warning sign of line 261 *)
(* is "/!\", the bullets of lines 153-156 are "*".                         *)
(***************************************************************************)
EXTENDS Integers, Sequences, FiniteSets, TLC

VARIABLES
    variant,      \* which App is mounted: "mock" (1-174) or "net" (175-338)
    messages,     \* useState<Message[]>: the message store
    input,        \* useState(""): the composer's text
    nextId,       \* number of crypto.randomUUID() calls made so far
    now,          \* the wall clock, in ms (Date.now(), timer deadlines)
    timers,       \* mock: the pending setTimeout callbacks, in setTimeout order
    inflight,     \* net: the pending sendToBackend calls
    sends,        \* number of accepted submissions so far
    renderedLen,  \* messages.length of the last committed render
    scrolls,      \* scrollIntoView calls made since the initial mount
    darkClass,    \* document.documentElement.classList.contains('dark')
    colorScheme,  \* document.documentElement.style.colorScheme
    notified,     \* history: the storage events delivered to onStorage
    rejected      \* history: the last step was a submission handleSend rejected

vars == <<variant, messages, input, nextId, now, timers, inflight, sends,
          renderedLen, scrolls, darkClass, colorScheme, notified, rejected>>

chatVars == <<variant, messages, input, nextId, now, timers, inflight, sends,
              renderedLen, scrolls, rejected>>

themeVars == <<darkClass, colorScheme, notified>>

(***************************************************************************)
(* Bounds of the model.                                                    *)
(***************************************************************************)
MaxSends == 2          \* accepted submissions in one run
MaxEvents == 3         \* storage events delivered in one run

(***************************************************************************)
(* Strings.                                                                *)
(***************************************************************************)
UpperCase == "ABCDEFGHIJKLMNOPQRSTUVWXYZ"
LowerCase == "abcdefghijklmnopqrstuvwxyz"

CharAt(s, i) == SubSeq(s, i, i)

\* String.prototype.toLowerCase on one character
LowerChar(c) ==
    IF \E i \in 1..Len(UpperCase) : CharAt(UpperCase, i) = c
    THEN CharAt(LowerCase, CHOOSE i \in 1..Len(UpperCase) : CharAt(UpperCase, i) = c)
    ELSE c

RECURSIVE toLowerCase(_)
toLowerCase(s) ==
    IF Len(s) = 0 THEN ""
    ELSE LowerChar(CharAt(s, 1)) \o toLowerCase(SubSeq(s, 2, Len(s)))

IsWhiteSpace(c) == c \in {" ", "\t", "\n", "\r"}

RECURSIVE trimStart(_)
trimStart(s) ==
    IF Len(s) > 0 /\ IsWhiteSpace(CharAt(s, 1))
    THEN trimStart(SubSeq(s, 2, Len(s)))
    ELSE s

RECURSIVE trimEnd(_)
trimEnd(s) ==
    IF Len(s) > 0 /\ IsWhiteSpace(CharAt(s, Len(s)))
    THEN trimEnd(SubSeq(s, 1, Len(s) - 1))
    ELSE s

\* a handleSend that tests the raw input
trimNone(s) == s

\* String.prototype.trim
trim(s) == trimEnd(trimStart(s))

\* s.includes(sub)
includes(s, sub) ==
    \E i \in 1..(Len(s) - Len(sub) + 1) : SubSeq(s, i, i + Len(sub) - 1) = sub

\* s.startsWith(pre)
startsWith(s, pre) == Len(s) >= Len(pre) /\ SubSeq(s, 1, Len(pre)) = pre

\* /a|b|c/i.test(s): an unanchored alternation of literals, ignoring case
test(alternatives, s) ==
    \E a \in alternatives : includes(toLowerCase(s), a)

\* Array.prototype.join
RECURSIVE join(_, _)
join(parts, sep) ==
    IF Len(parts) = 0 THEN ""
    ELSE IF Len(parts) = 1 THEN parts[1]
    ELSE parts[1] \o sep \o join(Tail(parts), sep)

(***************************************************************************)
(* Messages (part_000:16-23) and the values the handlers build.            *)
(***************************************************************************)
Role == {"user", "agent"}

\* createdAt is left out: the code writes it (Date.now()) and never reads it
Message(id, role, text) == [id |-> id, role |-> role, text |-> text]

\* an identifier source that repeats itself
randomUUIDCoarse(n) == n \div 2

\* crypto.randomUUID(): the n-th call returns the n-th fresh identifier
randomUUID(n) == n

\* part_000:27-34 and 201-208: the initial value of the messages state
GreetingText ==
    "Hi! I'm Bati. Tell me what you want to make and I'll plan a batch job for you."

InitialMessages(id) == << Message(id, "agent", GreetingText) >>

\* part_000:48-53 and 222-227
UserMsg(id, text) == Message(id, "user", text)

\* an updater that writes [msg, ...prev]
PrependMsg(prev, msg) == << msg >> \o prev

\* the functional updater prev => [...prev, msg] (part_000:56, 172, 256, 264)
AppendMsg(prev, msg) == prev \o << msg >>

(***************************************************************************)
(* mockAgentReply (part_000:141-174).                                      *)
(***************************************************************************)
Delay == 400

ActionWords == {"generate", "make", "create"}
SubjectWords == {"image", "poster", "promo", "batch", "gallery", "variant",
                 "ig", "tiktok", "facebook"}

acknowledgement(text) ==
    "Got it: \"" \o text \o "\". I can create a batch job or answer questions."

looksLikeBatchEither(text) == test(ActionWords, text) \/ test(SubjectWords, text)

looksLikeBatch(text) == test(ActionWords, text) /\ test(SubjectWords, text)

planLines(text) ==
    IF looksLikeBatch(text)
    THEN << "Plan:",
            "* Seeds: detect from context or ask you to upload",
            "* Sizes: 1080x1080 (IG), 1080x1920 (TikTok)",
            "* Count: 8",
            "* Overlay: headline + optional quote",
            "Say \"create batch\" to enqueue a mock job (we'll wire the backend next)." >>
    ELSE << >>

reply(text) ==
    join(<< acknowledgement(text) >>
           \o (IF Len(planLines(text)) # 0 THEN << "" >> \o planLines(text) ELSE << >>),
         "\n")

MockAgentMsg(id, text) == Message(id, "agent", reply(text))

\* setTimeout(callback, delay) called at time t
Timer(t, delay, msg) == [due |-> t + delay, msg |-> msg]

\* a delay that grows with the message
MockDelayByLength(text) == IF Len(text) > 5 THEN 2 * Delay ELSE Delay

\* the delay passed to setTimeout (part_000:173)
MockDelay(text) == Delay

\* the timer the event loop runs next: the earliest deadline, and among
\* equal deadlines the one registered first
NextTimer(ts) ==
    CHOOSE i \in 1..Len(ts) :
        \A j \in 1..Len(ts) :
            \/ ts[i].due < ts[j].due
            \/ ts[i].due = ts[j].due /\ i <= j

RemoveAt(seq, i) == SubSeq(seq, 1, i - 1) \o SubSeq(seq, i + 1, Len(seq))

(***************************************************************************)
(* sendToBackend (part_000:236-266).                                       *)
(***************************************************************************)
WarningMarker == "/!\\ Error: "
Undefined == "<undefined>"

\* the reply field of the server's JSON answer to a message; the server is
\* not part of the repository, this one answers with the message it got
ServerReply(text) == "Re: " \o text

\* What the server does with one request: the fetch promise rejects, or it
\* resolves with a status and a body; the body is a JSON object with a
\* reply, a JSON object without one, the JSON value null, or not JSON.
Responses ==
    { [kind |-> "reject", status |-> 0, body |-> "none"] }
    \cup { [kind |-> "http", status |-> st, body |-> "invalid"] : st \in {404, 500} }
    \cup { [kind |-> "http", status |-> 200, body |-> b] :
             b \in {"reply", "noReply", "null", "invalid"} }

\* Response.ok
ok(res) == res.status >= 200 /\ res.status <= 299

\* an Error that names no status
HttpErrorNoStatus(res) == [message |-> "HTTP error"]

\* the Error objects that reach the catch clause, by their message
HttpError(res) == [message |-> "HTTP " \o ToString(res.status)]
FetchError == [message |-> "Failed to fetch"]
JsonError == [message |-> "Unexpected end of JSON input"]
NullError == [message |-> "Cannot read properties of null (reading 'reply')"]

\* `${err.message || err}`: an Error with an empty message prints as "Error"
ErrText(err) == IF err.message # "" THEN err.message ELSE "Error"

\* part_000:258-263
ErrorMsg(id, err) == Message(id, "agent", WarningMarker \o ErrText(err))

\* part_000:250-255
AgentMsg(id, text) == Message(id, "agent", text)

Request(n, text, res) == [n |-> n, text |-> text, phase |-> "fetch", res |-> res]

\* a send that aborts the requests still in flight
IssueLatestOnly(pending, req) == {req}

\* part_000:233: the call is not awaited and nothing cancels the earlier ones
Issue(pending, req) == pending \cup {req}

(***************************************************************************)
(* Rendering: the scroll effect (part_000:37-41, 211-215) runs after a     *)
(* committed render whose messages.length differs from the previous one.   *)
(***************************************************************************)
\* an effect without a dependency array
ScrollEffectEveryRender(prevLen, newLen, count) == count + 1

ScrollEffect(prevLen, newLen, count) ==
    IF newLen # prevLen THEN count + 1 ELSE count

(***************************************************************************)
(* applyTheme and ThemeSync (main.tsx:6-29).                               *)
(***************************************************************************)
Null == "<null>"
StorageKeys == {"theme", "lang"}
StorageValues == {"dark", "light", "auto", Null}

\* an applyTheme that never removes the class
applyThemeAddOnly(theme) ==
    IF theme = "dark"
    THEN [darkClass |-> TRUE, colorScheme |-> "dark"]
    ELSE [darkClass |-> darkClass, colorScheme |-> "light"]

applyTheme(theme) ==
    IF theme = "dark"
    THEN [darkClass |-> TRUE, colorScheme |-> "dark"]
    ELSE [darkClass |-> FALSE, colorScheme |-> "light"]

\* the condition of onStorage (main.tsx:21)
IsThemeChange(key, newValue) ==
    key = "theme" /\ (newValue = "dark" \/ newValue = "light")

(***************************************************************************)
(* The state machine of the chat page.                                     *)
(***************************************************************************)
TickMs == Delay \div 2

Inputs == {" ", "hi", "GENERATE poster"}

ChatInit ==
    /\ messages = InitialMessages(randomUUID(0))
    /\ input = ""
    /\ nextId = 1
    /\ now = 0
    /\ timers = << >>
    /\ inflight = {}
    /\ sends = 0
    /\ renderedLen = 1
    /\ scrolls = 0
    /\ rejected = FALSE

Init ==
    /\ variant \in {"mock", "net"}
    /\ ChatInit
    /\ darkClass = FALSE
    /\ colorScheme = ""
    /\ notified = << >>

\* time passes.  The clock is read only to set and to test timer deadlines,
\* so it is advanced only while some timer has not reached its deadline.
Tick ==
    /\ \E i \in 1..Len(timers) : now < timers[i].due
    /\ now' = now + TickMs
    /\ rejected' = FALSE
    /\ UNCHANGED <<variant, messages, input, nextId, timers, inflight, sends,
                   renderedLen, scrolls, themeVars>>

\* onChange (part_000:94, 300): setInput(e.target.value).  The event is a
\* discrete one: the render of its own update is committed before the
\* handler returns, with the message count unchanged.
Type(s) ==
    /\ s # input
    /\ input' = s
    /\ renderedLen' = renderedLen
    /\ scrolls' = ScrollEffect(renderedLen, renderedLen', scrolls)
    /\ rejected' = FALSE
    /\ UNCHANGED <<variant, messages, nextId, now, timers, inflight, sends,
                   themeVars>>

\* handleSend with an empty or whitespace-only input (part_000:43-46, 217-220)
HandleSendEmpty ==
    /\ trim(input) = ""
    /\ rejected' = TRUE
    /\ UNCHANGED <<variant, messages, input, nextId, now, timers, inflight, sends,
                   renderedLen, scrolls, themeVars>>

\* handleSend of the mock App (part_000:43-61) with mockAgentReply (141-174).
\* Submit is a discrete event too: the render that shows the user's message
\* is committed before the handler returns.
HandleSendMock ==
    /\ variant = "mock"
    /\ sends < MaxSends
    /\ trim(input) # ""
    /\ LET text == trim(input)
           userMsg == UserMsg(randomUUID(nextId), text)
           agentMsg == MockAgentMsg(randomUUID(nextId + 1), text)
       IN /\ messages' = AppendMsg(messages, userMsg)
          /\ timers' = Append(timers, Timer(now, MockDelay(text), agentMsg))
    /\ input' = ""
    /\ nextId' = nextId + 2
    /\ sends' = sends + 1
    /\ renderedLen' = renderedLen + 1
    /\ scrolls' = ScrollEffect(renderedLen, renderedLen', scrolls)
    /\ rejected' = FALSE
    /\ UNCHANGED <<variant, now, inflight, themeVars>>

\* the callback of setTimeout (part_000:171-173)
TimerFire ==
    /\ timers # << >>
    /\ LET i == NextTimer(timers)
       IN /\ timers[i].due <= now
          /\ messages' = AppendMsg(messages, timers[i].msg)
          /\ timers' = RemoveAt(timers, i)
    /\ rejected' = FALSE
    /\ UNCHANGED <<variant, input, nextId, now, inflight, sends, renderedLen,
                   scrolls, themeVars>>

\* handleSend of the network App (part_000:217-234) up to the await of fetch
HandleSendNet ==
    /\ variant = "net"
    /\ sends < MaxSends
    /\ trim(input) # ""
    /\ LET text == trim(input)
           userMsg == UserMsg(randomUUID(nextId), text)
       IN /\ messages' = AppendMsg(messages, userMsg)
          /\ \E res \in Responses :
                inflight' = Issue(inflight, Request(sends + 1, text, res))
    /\ input' = ""
    /\ nextId' = nextId + 1
    /\ sends' = sends + 1
    /\ renderedLen' = renderedLen + 1
    /\ scrolls' = ScrollEffect(renderedLen, renderedLen', scrolls)
    /\ rejected' = FALSE
    /\ UNCHANGED <<variant, now, timers, themeVars>>

\* a catch clause that swallows the error
CatchSilently(r, err) ==
    /\ inflight' = inflight \ {r}
    /\ UNCHANGED <<messages, nextId>>

\* the catch clause of sendToBackend (part_000:257-265)
Catch(r, err) ==
    /\ messages' = AppendMsg(messages, ErrorMsg(randomUUID(nextId), err))
    /\ nextId' = nextId + 1
    /\ inflight' = inflight \ {r}

\* sendToBackend resumes after `await fetch(...)` (part_000:241-249)
FetchSettle(r) ==
    /\ r \in inflight
    /\ r.phase = "fetch"
    /\ IF r.res.kind = "reject"
       THEN Catch(r, FetchError)
       ELSE IF ~ok(r.res)
       THEN Catch(r, HttpError(r.res))
       ELSE /\ inflight' = (inflight \ {r}) \cup {[r EXCEPT !.phase = "json"]}
            /\ UNCHANGED <<messages, nextId>>
    /\ rejected' = FALSE
    /\ UNCHANGED <<variant, input, now, timers, sends, renderedLen, scrolls,
                   themeVars>>

\* sendToBackend resumes after `await res.json()` (part_000:249-256)
JsonSettle(r) ==
    /\ r \in inflight
    /\ r.phase = "json"
    /\ CASE r.res.body = "invalid" -> Catch(r, JsonError)
         [] r.res.body = "null" -> Catch(r, NullError)
         [] OTHER ->
              /\ messages' = AppendMsg(messages,
                    AgentMsg(randomUUID(nextId),
                             IF r.res.body = "reply" THEN ServerReply(r.text) ELSE Undefined))
              /\ nextId' = nextId + 1
              /\ inflight' = inflight \ {r}
    /\ rejected' = FALSE
    /\ UNCHANGED <<variant, input, now, timers, sends, renderedLen, scrolls,
                   themeVars>>

\* the render that follows appends made outside an event handler: all the
\* appends made since the last render are committed together
Commit ==
    /\ renderedLen # Len(messages)
    /\ renderedLen' = Len(messages)
    /\ scrolls' = ScrollEffect(renderedLen, renderedLen', scrolls)
    /\ rejected' = FALSE
    /\ UNCHANGED <<variant, messages, input, nextId, now, timers, inflight, sends,
                   themeVars>>

Next ==
    \/ Tick
    \/ \E s \in Inputs : Type(s)
    \/ HandleSendEmpty
    \/ HandleSendMock
    \/ TimerFire
    \/ HandleSendNet
    \/ \E r \in inflight : FetchSettle(r)
    \/ \E r \in inflight : JsonSettle(r)
    \/ Commit

Spec == Init /\ [][Next]_vars

(***************************************************************************)
(* The state machine of ThemeSync.  It shares no state with App, so it is  *)
(* explored on its own, next to a freshly mounted App.                     *)
(***************************************************************************)
StorageEvent(key, newValue) == [key |-> key, newValue |-> newValue]

ThemeInit ==
    /\ variant \in {"mock", "net"}
    /\ ChatInit
    /\ darkClass \in BOOLEAN
    /\ colorScheme \in {"", "dark", "light"}
    /\ notified = << >>

\* onStorage (main.tsx:20-24)
OnStorage(e) ==
    /\ Len(notified) < MaxEvents
    /\ IF IsThemeChange(e.key, e.newValue)
       THEN /\ darkClass' = applyTheme(e.newValue).darkClass
            /\ colorScheme' = applyTheme(e.newValue).colorScheme
       ELSE UNCHANGED <<darkClass, colorScheme>>
    /\ notified' = Append(notified, e)
    /\ UNCHANGED chatVars

ThemeNext ==
    \E k \in StorageKeys, v \in StorageValues : OnStorage(StorageEvent(k, v))

SpecTheme == ThemeInit /\ [][ThemeNext]_vars

(***************************************************************************)
(* mockAgentReply over a larger set of inputs: the mock App with one       *)
(* message already typed into the composer.                                *)
(***************************************************************************)
Verbs == {"generate", "Make", "CREATE", "draw"}
Nouns == {"image", "Poster", "promo", "batch", "gallery", "variants", "IG",
          "tiktok", "Facebook", "big", "cat"}

ReplyInputs ==
    Verbs \cup Nouns \cup { v \o " a " \o n : v \in Verbs, n \in Nouns }

ReplyInit ==
    /\ variant = "mock"
    /\ messages = InitialMessages(randomUUID(0))
    /\ input \in ReplyInputs
    /\ nextId = 1
    /\ now = 0
    /\ timers = << >>
    /\ inflight = {}
    /\ sends = 0
    /\ renderedLen = 1
    /\ scrolls = 0
    /\ rejected = FALSE
    /\ darkClass = FALSE
    /\ colorScheme = ""
    /\ notified = << >>

ReplyNext ==
    \/ HandleSendMock
    \/ Tick
    \/ TimerFire
    \/ Commit

SpecReply == ReplyInit /\ [][ReplyNext]_vars

(***************************************************************************)
(* Vocabulary of the properties.                                           *)
(***************************************************************************)
IsUser(m) == m.role = "user"
IsAgent(m) == m.role = "agent"

\* the user messages, and the replies that follow the greeting, in store order
UserMsgs == SelectSeq(messages, IsUser)
Replies == SelectSeq(Tail(messages), IsAgent)

\* the replies still to come: waiting timers and sendToBackend calls in flight
Pending == Len(timers) + Cardinality({ r.n : r \in inflight })

IsPrefix(a, b) == Len(a) <= Len(b) /\ SubSeq(b, 1, Len(a)) = a

Last(seq) == seq[Len(seq)]

IsBlank(s) == \A i \in 1..Len(s) : CharAt(s, i) \in {" ", "\t", "\n", "\r"}

\* text has a line that reads exactly `line`
HasLine(text, line) ==
    \/ text = line
    \/ startsWith(text, line \o "\n")
    \/ includes(text, "\n" \o line \o "\n")
    \/ /\ Len(text) > Len(line)
       /\ SubSeq(text, Len(text) - Len(line), Len(text)) = "\n" \o line

Mentions(keywords, text) == \E w \in keywords : includes(toLowerCase(text), w)

ActionKeywords == {"generate", "make", "create"}
SubjectKeywords == {"image", "poster", "promo", "batch", "gallery", "variant",
                    "ig", "tiktok", "facebook"}

\* the reply quotes the user's text back
Echoes(replyText, userText) == startsWith(replyText, "Got it: \"" \o userText \o "\"")

IsThemeValue(e) == e.key = "theme" /\ e.newValue \in {"dark", "light"}

\* the last 'dark' or 'light' notified for key 'theme', Null when there is none
RECURSIVE LastValid(_)
LastValid(log) ==
    IF Len(log) = 0 THEN Null
    ELSE IF IsThemeValue(Last(log)) THEN Last(log).newValue
    ELSE LastValid(SubSeq(log, 1, Len(log) - 1))

(***************************************************************************)
(* C1: in both variants every accepted submission has put one user message *)
(* in the store, and each of them has exactly one reply, either in the     *)
(* store or still pending; so once nothing is pending the store holds      *)
(* exactly one agent or error message for each user message.               *)
(***************************************************************************)
C1_OneReplyPerSubmission ==
    /\ Len(UserMsgs) = sends
    /\ Len(Replies) + Pending = Len(UserMsgs)

C1_Witness ==
    /\ variant = "net"
    /\ sends = 2
    /\ Pending = 0
    /\ Len(Replies) = 2
    /\ \E i \in 2..Len(messages) : startsWith(messages[i].text, WarningMarker)
    /\ \E i \in 2..Len(messages) : startsWith(messages[i].text, "Re: ")

(***************************************************************************)
(* C2: a submission of an empty or whitespace-only input changes neither   *)
(* the messages nor the input and starts no timer and no fetch; while the  *)
(* input is blank no step accepts a submission.                            *)
(***************************************************************************)
C2_EmptySubmissionIsNoOp ==
    [][ /\ rejected' => UNCHANGED <<messages, input, timers, inflight>>
        /\ IsBlank(input) =>
              /\ sends' = sends
              /\ Len(UserMsgs') = Len(UserMsgs)
              /\ Pending' <= Pending ]_vars

C2_Witness ==
    /\ rejected
    /\ input = " "
    /\ Len(messages) = 3
    /\ Pending = 0

(***************************************************************************)
(* C3: the store is append-only: in every step the old message sequence is *)
(* a prefix of the new one.                                                *)
(***************************************************************************)
C3_AppendOnly == [][IsPrefix(messages, messages')]_vars

C3_Witness ==
    /\ Len(messages) = 5
    /\ Len(UserMsgs) = 2
    /\ messages[3].role = "agent"

(***************************************************************************)
(* C4: when a fetch resolves with a status outside 200..299, that step     *)
(* appends exactly one message, whose text starts with the warning marker  *)
(* and includes "HTTP <status>", and the request is over: no reply follows.*)
(***************************************************************************)
C4_NonOkStatusYieldsError ==
    [][ \A r \in inflight :
          ( /\ r.phase = "fetch"
            /\ r.res.kind = "http"
            /\ ~(r.res.status >= 200 /\ r.res.status <= 299)
            /\ r \notin inflight' )
          => /\ Len(messages') = Len(messages) + 1
             /\ IsPrefix(messages, messages')
             /\ startsWith(Last(messages').text, WarningMarker)
             /\ includes(Last(messages').text, "HTTP " \o ToString(r.res.status))
             /\ \A q \in inflight' : q.n # r.n ]_vars

C4_Witness ==
    /\ variant = "net"
    /\ sends = 1
    /\ Pending = 0
    /\ Len(messages) = 3
    /\ startsWith(messages[3].text, WarningMarker)
    /\ includes(messages[3].text, "HTTP 500")

(***************************************************************************)
(* C5: the mock reply to a text that mentions an action keyword and a      *)
(* subject keyword has the line "Plan:"; the reply to a text that mentions *)
(* only one of the two has no such line and is the one-line                *)
(* acknowledgement.                                                        *)
(***************************************************************************)
C5_PlanIffBothKeywords ==
    Len(messages) >= 3 =>
        LET text == messages[2].text
            answer == messages[3].text
            action == Mentions(ActionKeywords, text)
            subject == Mentions(SubjectKeywords, text)
        IN /\ (action /\ subject) => HasLine(answer, "Plan:")
           /\ (action # subject) =>
                 /\ ~HasLine(answer, "Plan:")
                 /\ Echoes(answer, text)
                 /\ ~includes(answer, "\n")

C5_Witness ==
    /\ Len(messages) = 3
    /\ messages[2].text = "Make a Poster"
    /\ HasLine(messages[3].text, "Plan:")

(***************************************************************************)
(* C6: no two messages of the store share an id.                           *)
(***************************************************************************)
C6_UniqueIds ==
    \A i, j \in 1..Len(messages) : i # j => messages[i].id # messages[j].id

C6_Witness ==
    /\ variant = "mock"
    /\ Len(messages) = 5
    /\ Len(timers) = 0

(***************************************************************************)
(* C7 as stated: once the render has caught up with the store, the number  *)
(* of scrollIntoView calls since the mount equals the number of messages   *)
(* appended after the greeting.                                            *)
(***************************************************************************)
C7_OneScrollPerMessage ==
    renderedLen = Len(messages) => scrolls = Len(messages) - 1

(***************************************************************************)
(* C7 amended: the scroll action runs once in every step that commits a    *)
(* render with a message count other than the one rendered before, and in  *)
(* no other step; the number of calls never exceeds the number of messages *)
(* appended after the greeting.                                            *)
(***************************************************************************)
C7_OneScrollPerRenderedChange ==
    [][ /\ renderedLen' # renderedLen => scrolls' = scrolls + 1
        /\ renderedLen' = renderedLen => scrolls' = scrolls
        /\ scrolls' <= Len(messages') - 1 ]_vars

C7_Witness ==
    /\ renderedLen = Len(messages)
    /\ Len(messages) = 5
    /\ scrolls = 3

(***************************************************************************)
(* C8: after any notifications the document's mode is the last 'dark' or   *)
(* 'light' value notified for key 'theme' (dark: class present and         *)
(* colorScheme 'dark'), and a notification equal to the one before it      *)
(* leaves the mode as it is.                                               *)
(***************************************************************************)
C8_ThemeFollowsLastValid ==
    /\ [](LastValid(notified) # Null =>
            /\ darkClass = (LastValid(notified) = "dark")
            /\ colorScheme = LastValid(notified))
    /\ [][ (Len(notified) > 0 /\ notified' = Append(notified, Last(notified)))
           => UNCHANGED <<darkClass, colorScheme>> ]_vars

C8_Witness ==
    /\ Len(notified) = 3
    /\ notified[1] = StorageEvent("theme", "light")
    /\ notified[2] = StorageEvent("theme", "dark")
    /\ notified[3] = StorageEvent("theme", "dark")
    /\ darkClass
    /\ colorScheme = "dark"

(***************************************************************************)
(* C9: a submission cancels and replaces nothing that is pending, and a    *)
(* reply is appended, at the end of the store, in the step in which it     *)
(* completes: replies stand in completion order.  The witness is the state *)
(* the claim names: B's reply in the store before A's.                     *)
(***************************************************************************)
C9_RepliesInCompletionOrder ==
    [][ /\ sends' = sends + 1 =>
              /\ \A r \in inflight : r \in inflight'
              /\ IsPrefix(timers, timers')
              /\ Pending' = Pending + 1
        /\ Pending' < Pending =>
              /\ Pending' = Pending - 1
              /\ Len(messages') = Len(messages) + 1
              /\ IsPrefix(messages, messages')
              /\ Last(messages').role = "agent" ]_vars

C9_Witness ==
    /\ variant = "net"
    /\ Len(messages) = 5
    /\ messages[2] = [id |-> messages[2].id, role |-> "user", text |-> "hi"]
    /\ messages[3].role = "user"
    /\ messages[3].text = "GENERATE poster"
    /\ messages[4].role = "agent"
    /\ messages[4].text = "Re: GENERATE poster"
    /\ messages[5].role = "agent"
    /\ messages[5].text = "Re: hi"

(***************************************************************************)
(* C10: in the mock variant there are never more replies than user         *)
(* messages and the k-th reply after the greeting echoes the k-th user     *)
(* message.                                                                *)
(***************************************************************************)
C10_MockRepliesInSubmissionOrder ==
    variant = "mock" =>
        /\ Len(Replies) <= Len(UserMsgs)
        /\ \A k \in 1..Len(Replies) : Echoes(Replies[k].text, UserMsgs[k].text)

C10_Witness ==
    /\ variant = "mock"
    /\ Len(messages) = 5
    /\ messages[2].role = "user"
    /\ messages[3].role = "user"
    /\ messages[2].text # messages[3].text
    /\ messages[4].role = "agent"
    /\ messages[5].role = "agent"

====
